---- MODULE Spec2Model ----
(***************************************************************************)
(* Model of the Oanda REST gateway (src/server.py).                        *)
(*                                                                         *)
(* req[s] is the s-th request.  A handler runs from its entry to its       *)
(* single `oanda_client.request(r)` call (one action per route),           *)
(* the request then waits for the broker, and `oanda_client_request`       *)
(* delivers the broker's reply (a response or a raised exception), runs    *)
(* the rest of the handler's try block and its except clauses, and lets    *)
(* the framework turn the outcome into an HTTP response.                   *)
(*                                                                         *)
(* Python text is modelled as a sequence of pieces; where the code parses  *)
(* text (int(units)) the pieces are single characters.                     *)
(***************************************************************************)
EXTENDS Integers, Sequences, FiniteSets, TLC

VARIABLES OANDA_API_KEY, OANDA_ACCOUNT_ID, OANDA_ENVIRONMENT, oanda_client, req

vars == <<OANDA_API_KEY, OANDA_ACCOUNT_ID, OANDA_ENVIRONMENT, oanda_client, req>>

config == <<OANDA_API_KEY, OANDA_ACCOUNT_ID, OANDA_ENVIRONMENT, oanda_client>>

----------------------------------------------------------------------------
(* Bounds of the model *)

\* longest `units` query string enumerated for POST /position/close
MaxUnitsLen == 3

\* number of requests served in SpecConc
NumRequests == 2

\* the candle count cap of get_historical_data
MaxCandles == 5000

----------------------------------------------------------------------------
(* Python values and text *)

Digits == <<"0", "1", "2", "3", "4", "5", "6", "7", "8", "9">>

IsDigit(c) == \E i \in 1..10 : Digits[i] = c

DigitVal(c) == (CHOOSE i \in 1..10 : Digits[i] = c) - 1

Abs(n) == IF n < 0 THEN -n ELSE n

RECURSIVE NatToStr(_)
NatToStr(n) == IF n < 10 THEN <<Digits[n + 1]>>
               ELSE NatToStr(n \div 10) \o <<Digits[(n % 10) + 1]>>

\* str(n) for a Python int
IntToStr(n) == IF n < 0 THEN <<"-">> \o NatToStr(-n) ELSE NatToStr(n)

IsSpace(c) == c = " "

RECURSIVE LStrip(_)
LStrip(s) == IF s # <<>> /\ IsSpace(Head(s)) THEN LStrip(Tail(s)) ELSE s

RECURSIVE RStrip(_)
RStrip(s) == IF s # <<>> /\ IsSpace(s[Len(s)])
             THEN RStrip(SubSeq(s, 1, Len(s) - 1)) ELSE s

\* the digit part of an int literal: digits, single underscores between them
DigitsOK(d) ==
    /\ d # <<>>
    /\ \A i \in 1..Len(d) : IsDigit(d[i]) \/ d[i] = "_"
    /\ IsDigit(d[1]) /\ IsDigit(d[Len(d)])
    /\ \A i \in 1..(Len(d) - 1) : ~(d[i] = "_" /\ d[i + 1] = "_")

RECURSIVE DigitsValue(_, _)
DigitsValue(d, acc) ==
    IF d = <<>> THEN acc
    ELSE IF Head(d) = "_" THEN DigitsValue(Tail(d), acc)
    ELSE DigitsValue(Tail(d), 10 * acc + DigitVal(Head(d)))

\* int(s) for a Python str: surrounding blanks are stripped, then an optional
\* sign, then the digits; anything else raises ValueError
ParseInt(s) ==
    LET t    == RStrip(LStrip(s))
        sign == t # <<>> /\ Head(t) \in {"-", "+"}
        d    == IF sign THEN Tail(t) ELSE t
    IN  IF DigitsOK(d)
        THEN [ok |-> TRUE,
              val |-> IF sign /\ Head(t) = "-" THEN -DigitsValue(d, 0)
                      ELSE DigitsValue(d, 0)]
        ELSE [ok |-> FALSE, val |-> 0]

\* JSON values of a request body, as Python objects
PyNone == [type |-> "NoneType", n |-> 0, s |-> <<>>]
PyInt(n) == [type |-> "int", n |-> n, s |-> <<>>]
PyStr(s) == [type |-> "str", n |-> 0, s |-> s]

\* bool(v)
Truthy(v) == CASE v.type = "NoneType" -> FALSE
               [] v.type = "int" -> v.n # 0
               [] v.type = "str" -> v.s # <<>>

\* str(v)
Str(v) == CASE v.type = "NoneType" -> <<"None">>
            [] v.type = "int" -> IntToStr(v.n)
            [] v.type = "str" -> v.s

\* Python dicts are functions from keys to values
EmptyDict == [k \in {} |-> PyNone]

DictGet(d, k, default) == IF k \in DOMAIN d THEN d[k] ELSE default

DictSet(d, k, v) == [x \in (DOMAIN d) \cup {k} |-> IF x = k THEN v ELSE d[x]]

----------------------------------------------------------------------------
(* Exceptions *)

NoExc == [cls |-> "None", status_code |-> 0, detail |-> <<>>]

\* V20Error(code, msg)
V20Error(code, msg) == [cls |-> "V20Error", status_code |-> code, detail |-> msg]

HTTPException(status_code, detail) ==
    [cls |-> "HTTPException", status_code |-> status_code, detail |-> detail]

OtherError(cls, msg) == [cls |-> cls, status_code |-> 0, detail |-> msg]

\* isinstance(exc, cls): every exception class here derives from Exception,
\* HTTPException included
IsInstance(exc, cls) == cls = "Exception" \/ exc.cls = cls

\* str(exc)
StrExc(exc) == IF exc.cls = "HTTPException"
               THEN <<ToString(exc.status_code), ": ">> \o exc.detail
               ELSE exc.detail

----------------------------------------------------------------------------
(* The broker client: requests sent and replies received *)

NoRequest == [endpoint |-> "none", accountID |-> "", path |-> <<>>, data |-> EmptyDict]

AccountDetails(accountID) ==
    [endpoint |-> "AccountDetails", accountID |-> accountID, path |-> <<>>,
     data |-> EmptyDict]

OpenPositions(accountID) ==
    [endpoint |-> "OpenPositions", accountID |-> accountID, path |-> <<>>,
     data |-> EmptyDict]

OrderList(accountID) ==
    [endpoint |-> "OrderList", accountID |-> accountID, path |-> <<>>,
     data |-> EmptyDict]

PricingInfo(accountID, params) ==
    [endpoint |-> "PricingInfo", accountID |-> accountID, path |-> <<>>,
     data |-> params]

\* InstrumentsCandles takes no account id
InstrumentsCandles(instrument, params) ==
    [endpoint |-> "InstrumentsCandles", accountID |-> "", path |-> instrument,
     data |-> params]

OrderCreate(accountID, data) ==
    [endpoint |-> "OrderCreate", accountID |-> accountID, path |-> <<>>,
     data |-> data]

OrderCancel(accountID, orderID) ==
    [endpoint |-> "OrderCancel", accountID |-> accountID, path |-> orderID,
     data |-> EmptyDict]

PositionClose(accountID, instrument, data) ==
    [endpoint |-> "PositionClose", accountID |-> accountID, path |-> instrument,
     data |-> data]

\* what `oanda_client.request(r)` does: it returns with r.response set, or raises
NoReply == [kind |-> "none", response |-> EmptyDict, exc |-> NoExc]
Returns(response) == [kind |-> "return", response |-> response, exc |-> NoExc]
Raises(exc) == [kind |-> "raise", response |-> EmptyDict, exc |-> exc]

BrokerMessage == <<"Insufficient authorization to perform request.">>

BrokerFailures ==
    { Raises(V20Error(401, BrokerMessage)),
      Raises(OtherError("ConnectionError", <<"Connection refused">>)) }

Opaque == [lastTransactionID |-> "7"]

AccountInfo ==
    [id |-> "101-001", currency |-> "USD", balance |-> "1000.0", NAV |-> "1001.5",
     unrealizedPL |-> "1.5", marginUsed |-> "10.0", marginAvailable |-> "991.5",
     marginRate |-> "0.02", openTradeCount |-> 1, openPositionCount |-> 1,
     pendingOrderCount |-> 0]

Quote(p) == [price |-> p, liquidity |-> 1000000]

PriceRow == [bids |-> <<Quote(<<"1", ".", "1", "0", "0", "0">>)>>,
             asks |-> <<Quote(<<"1", ".", "1", "0", "0", "2">>)>>,
             time |-> "2024-01-01T00:00:00Z"]

PriceRowNoBids == [bids |-> <<>>,
                   asks |-> <<Quote(<<"1", ".", "1", "0", "0", "2">>)>>,
                   time |-> "2024-01-01T00:00:00Z"]

\* the replies the broker can give on each route
Replies(route) ==
    BrokerFailures \cup
    CASE route \in {"account", "health"} ->
            { Returns([account |-> AccountInfo]), Returns(Opaque) }
      [] route = "positions" ->
            { Returns([positions |-> <<[instrument |-> "EUR_USD"]>>]), Returns(Opaque) }
      [] route = "orders" ->
            { Returns([orders |-> <<[id |-> "11"], [id |-> "12"]>>]), Returns(Opaque) }
      [] route = "price" ->
            { Returns(Opaque), Returns([prices |-> <<>>]),
              Returns([prices |-> <<PriceRow>>]), Returns([prices |-> <<PriceRowNoBids>>]) }
      [] route = "historical" ->
            { Returns([candles |-> <<[time |-> "t1"], [time |-> "t2"]>>]), Returns(Opaque) }
      [] OTHER -> { Returns(Opaque) }

----------------------------------------------------------------------------
(* Outcomes of a handler's code *)

\* the try block reached `oanda_client.request(r)`
Call(r) == [kind |-> "call", r |-> r, body |-> EmptyDict, exc |-> NoExc]
\* the handler returned `body`
Return(body) == [kind |-> "return", r |-> NoRequest, body |-> body, exc |-> NoExc]
\* an exception left the code
Raise(exc) == [kind |-> "raise", r |-> NoRequest, body |-> EmptyDict, exc |-> exc]

\* except clauses without the V20Error clause
except_clauses_without_v20(outcome) ==
    IF outcome.kind # "raise" THEN outcome
    ELSE IF IsInstance(outcome.exc, "Exception")
         THEN Raise(HTTPException(500, <<"Internal error: ">> \o StrExc(outcome.exc)))
    ELSE outcome

\* the except clauses every handler but health_check ends with
except_clauses(outcome) ==
    IF outcome.kind # "raise" THEN outcome
    ELSE IF IsInstance(outcome.exc, "V20Error")
         THEN Raise(HTTPException(400, <<"Oanda API error: ">> \o StrExc(outcome.exc)))
    ELSE IF IsInstance(outcome.exc, "Exception")
         THEN Raise(HTTPException(500, <<"Internal error: ">> \o StrExc(outcome.exc)))
    ELSE outcome

global_exception_handler(exc) ==
    [status |-> 500,
     body |-> [success |-> FALSE, error |-> <<"Internal server error">>,
               detail |-> StrExc(exc)]]

\* what the framework sends for a handler's outcome: the returned body with
\* 200, an HTTPException's own status, and the global handler's answer otherwise
HttpResponse(outcome) ==
    IF outcome.kind = "return" THEN [status |-> 200, body |-> outcome.body]
    ELSE IF IsInstance(outcome.exc, "HTTPException")
         THEN [status |-> outcome.exc.status_code, body |-> [detail |-> outcome.exc.detail]]
    ELSE global_exception_handler(outcome.exc)

----------------------------------------------------------------------------
(* The handlers: each try block up to its broker call, and after it *)

\* GET /health, after the probe returned
health_check_result(response) ==
    Return([status |-> "healthy", oanda_connection |-> "ok",
            account_id |-> OANDA_ACCOUNT_ID, environment |-> OANDA_ENVIRONMENT])

\* a health check that catches nothing
health_check_uncaught(outcome) == outcome

\* GET /health, `except Exception`
health_check_except(outcome) ==
    IF outcome.kind = "raise" /\ IsInstance(outcome.exc, "Exception")
    THEN Return([status |-> "unhealthy", error |-> StrExc(outcome.exc),
                 oanda_connection |-> "failed"])
    ELSE outcome

AccountKeys == {"id", "currency", "balance", "NAV", "unrealizedPL", "marginUsed",
                "marginAvailable", "marginRate", "openTradeCount",
                "openPositionCount", "pendingOrderCount"}

\* GET /account, after the call
get_account_info_result(response) ==
    IF "account" \notin DOMAIN response
    THEN Raise(OtherError("KeyError", <<"'account'">>))
    ELSE LET account_info == response["account"] IN
         IF ~(AccountKeys \subseteq DOMAIN account_info)
         THEN Raise(OtherError("KeyError", <<"missing account field">>))
         ELSE Return([success |-> TRUE,
                      data |-> [id |-> account_info["id"],
                                currency |-> account_info["currency"],
                                balance |-> account_info["balance"],
                                nav |-> account_info["NAV"],
                                unrealized_pl |-> account_info["unrealizedPL"],
                                margin_used |-> account_info["marginUsed"],
                                margin_available |-> account_info["marginAvailable"],
                                margin_rate |-> account_info["marginRate"],
                                open_trade_count |-> account_info["openTradeCount"],
                                open_position_count |-> account_info["openPositionCount"],
                                pending_order_count |-> account_info["pendingOrderCount"]]])

\* GET /positions, GET /orders: the list under `key`, and its length
list_result(response, key) ==
    LET rows == DictGet(response, key, <<>>) IN
    Return([success |-> TRUE, data |-> rows, count |-> Len(rows)])

get_positions_result(response) == list_result(response, "positions")

get_orders_result(response) == list_result(response, "orders")

\* float(text) of a decimal quote, in units of its last digit; float(0) is 0.
\* Binary rounding is not modelled.
RECURSIVE Float(_)
Float(text) == IF text = <<>> THEN 0
               ELSE IF IsDigit(text[Len(text)])
                    THEN 10 * Float(SubSeq(text, 1, Len(text) - 1)) + DigitVal(text[Len(text)])
                    ELSE Float(SubSeq(text, 1, Len(text) - 1))

\* GET /price/{instrument}, up to the call
get_current_price_call(instrument) ==
    Call(PricingInfo(OANDA_ACCOUNT_ID, [instruments |-> instrument]))

\* GET /price/{instrument}, after the call
get_current_price_result(instrument, response) ==
    LET prices == DictGet(response, "prices", <<>>) IN
    IF prices = <<>>
    THEN Raise(HTTPException(404, <<"No price data found for ">> \o instrument))
    ELSE LET price_data == prices[1]
             bids == DictGet(price_data, "bids", <<EmptyDict>>)
             asks == DictGet(price_data, "asks", <<EmptyDict>>)
         IN  IF bids = <<>> \/ asks = <<>>
             THEN Raise(OtherError("IndexError", <<"list index out of range">>))
             ELSE Return([success |-> TRUE,
                          data |-> [instrument |-> instrument,
                                    bid |-> DictGet(bids[1], "price", <<"N/A">>),
                                    ask |-> DictGet(asks[1], "price", <<"N/A">>),
                                    spread |-> Float(DictGet(asks[1], "price", <<>>))
                                               - Float(DictGet(bids[1], "price", <<>>)),
                                    time |-> DictGet(price_data, "time", "None")]])

Min(a, b) == IF a <= b THEN a ELSE b

\* min(count, 5000) with no cap at all
historical_params_uncapped(granularity, count) ==
    [granularity |-> granularity, count |-> count]

\* GET /historical/{instrument}: the params sent to the broker
historical_params(granularity, count) ==
    [granularity |-> granularity, count |-> Min(count, MaxCandles)]

\* GET /historical/{instrument}, up to the call; the query defaults are the
\* declared parameter defaults
get_historical_data_call(instrument, query) ==
    LET granularity == DictGet(query, "granularity", <<"D">>)
        count == DictGet(query, "count", 100)
    IN  Call(InstrumentsCandles(instrument, historical_params(granularity, count)))

\* GET /historical/{instrument}, after the call
get_historical_data_result(instrument, query, response) ==
    LET granularity == DictGet(query, "granularity", <<"D">>)
        candles == DictGet(response, "candles", <<>>)
    IN  Return([success |-> TRUE,
                data |-> [instrument |-> instrument, granularity |-> granularity,
                          candles |-> candles, count |-> Len(candles)]])

\* the first required field the body lacks, in the order the loop tests them
RECURSIVE FirstMissing(_, _)
FirstMissing(required_fields, order_request) ==
    IF required_fields = <<>> THEN "" 
    ELSE IF Head(required_fields) \notin DOMAIN order_request
         THEN Head(required_fields)
         ELSE FirstMissing(Tail(required_fields), order_request)

\* the optional key is added whenever the field is in the body, truthy or not
add_on_fill_if_present(order, order_request, field, key) ==
    IF field \in DOMAIN order_request
    THEN DictSet(order, key, [price |-> Str(order_request[field])])
    ELSE order

\* `if order_request.get(field): order[key] = {"price": str(order_request[field])}`
add_on_fill(order, order_request, field, key) ==
    IF Truthy(DictGet(order_request, field, PyNone))
    THEN DictSet(order, key, [price |-> Str(order_request[field])])
    ELSE order

\* the optional stop loss and take profit of an order
with_on_fill(order, order_request) ==
    add_on_fill(add_on_fill(order, order_request, "stop_loss", "stopLossOnFill"),
                order_request, "take_profit", "takeProfitOnFill")

\* POST /order/market, up to the call
place_market_order_call(order_request) ==
    LET missing == FirstMissing(<<"instrument", "units">>, order_request) IN
    IF missing # ""
    THEN Raise(HTTPException(400, <<"Missing required field: ", missing>>))
    ELSE LET order == [type |-> <<"MARKET">>,
                       instrument |-> order_request["instrument"],
                       units |-> Str(order_request["units"])]
         IN  Call(OrderCreate(OANDA_ACCOUNT_ID,
                              [order |-> with_on_fill(order, order_request)]))

\* POST /order/limit, up to the call
place_limit_order_call(order_request) ==
    LET missing == FirstMissing(<<"instrument", "units", "price">>, order_request) IN
    IF missing # ""
    THEN Raise(HTTPException(400, <<"Missing required field: ", missing>>))
    ELSE LET order == [type |-> <<"LIMIT">>,
                       instrument |-> order_request["instrument"],
                       units |-> Str(order_request["units"]),
                       price |-> Str(order_request["price"])]
         IN  Call(OrderCreate(OANDA_ACCOUNT_ID,
                              [order |-> with_on_fill(order, order_request)]))

\* the order, cancel and close routes return the broker's response as it is
raw_result(response) == Return([success |-> TRUE, data |-> response])

ALL == <<"A", "L", "L">>

\* close_data with the sign kept on the short side
close_data_signed(units) ==
    IF units = ALL THEN [longUnits |-> ALL, shortUnits |-> ALL]
    ELSE IF ParseInt(units).val > 0 THEN [longUnits |-> units]
    ELSE [shortUnits |-> IntToStr(ParseInt(units).val)]

\* POST /position/close: the payload for a `units` that is "ALL" or an integer
close_data(units) ==
    IF units = ALL THEN [longUnits |-> ALL, shortUnits |-> ALL]
    ELSE IF ParseInt(units).val > 0 THEN [longUnits |-> units]
    ELSE [shortUnits |-> IntToStr(Abs(ParseInt(units).val))]

\* POST /position/close/{instrument}, up to the call
close_position_call(instrument, query) ==
    LET units == DictGet(query, "units", ALL) IN
    IF units # ALL /\ ~ParseInt(units).ok
    THEN Raise(OtherError("ValueError", <<"invalid literal for int() with base 10: ">> \o units))
    ELSE Call(PositionClose(OANDA_ACCOUNT_ID, instrument, close_data(units)))

----------------------------------------------------------------------------
(* Requests *)

NoArgs == [instrument |-> <<>>, order_request |-> EmptyDict, query |-> EmptyDict,
           order_id |-> <<>>, now |-> ""]

Idle == [pc |-> "idle", route |-> "", args |-> NoArgs, sent |-> <<>>,
         reply |-> NoReply, raised |-> NoExc, status |-> 0, body |-> EmptyDict]

\* the request is blocked in `oanda_client.request(r)`
Awaiting(route, args, r) ==
    [pc |-> "awaiting", route |-> route, args |-> args, sent |-> <<r>>,
     reply |-> NoReply, raised |-> NoExc, status |-> 0, body |-> EmptyDict]

\* the response is sent; `try` is how the try block ended, `outcome` how the
\* handler ended
Finished(route, args, sent, reply, try, outcome) ==
    LET http == HttpResponse(outcome) IN
    [pc |-> "done", route |-> route, args |-> args, sent |-> sent, reply |-> reply,
     raised |-> try.exc, status |-> http.status, body |-> http.body]

\* a handler runs up to its broker call, or ends before it
Started(route, args, pre) ==
    IF pre.kind = "call" THEN Awaiting(route, args, pre.r)
    ELSE Finished(route, args, <<>>, NoReply, pre, except_clauses(pre))

\* the rest of the try block once the broker call returned
after_request(rq, response) ==
    CASE rq.route = "health" -> health_check_result(response)
      [] rq.route = "account" -> get_account_info_result(response)
      [] rq.route = "positions" -> get_positions_result(response)
      [] rq.route = "orders" -> get_orders_result(response)
      [] rq.route = "price" -> get_current_price_result(rq.args.instrument, response)
      [] rq.route = "historical" ->
            get_historical_data_result(rq.args.instrument, rq.args.query, response)
      [] OTHER -> raw_result(response)

\* a handler that calls the broker a second time when the first call raised
handler_completes_retry(rq, reply) ==
    LET try == IF reply.kind = "raise" THEN Raise(reply.exc)
               ELSE after_request(rq, reply.response)
        outcome == IF rq.route = "health" THEN health_check_except(try)
                   ELSE except_clauses(try)
    IN  Finished(rq.route, rq.args,
                 IF reply.kind = "raise" THEN rq.sent \o rq.sent ELSE rq.sent,
                 reply, try, outcome)

\* the handler from the broker's reply to its response
handler_completes(rq, reply) ==
    LET try == IF reply.kind = "raise" THEN Raise(reply.exc)
               ELSE after_request(rq, reply.response)
        outcome == IF rq.route = "health" THEN health_check_except(try)
                   ELSE except_clauses(try)
    IN  Finished(rq.route, rq.args, rq.sent, reply, try, outcome)

----------------------------------------------------------------------------
(* Inputs *)

Merge(a, b) == [k \in (DOMAIN a) \cup (DOMAIN b) |-> IF k \in DOMAIN b THEN b[k] ELSE a[k]]

\* the dicts that leave key k out or give it a value of V
Opt(k, V) == {EmptyDict} \cup {[x \in {k} |-> v] : v \in V}

Product(A, B) == {Merge(a, b) : a \in A, b \in B}

EUR_USD == <<"EUR_USD">>

OnFillValues == {PyNone, PyInt(0), PyStr(<<>>), PyInt(2), PyStr(<<"1.0500">>)}

OrderBodies ==
    Product(Product(Product(Product(
        Opt("instrument", {PyStr(EUR_USD)}),
        Opt("units", {PyInt(100), PyStr(<<"-", "5", "0">>)})),
        Opt("price", {PyStr(<<"1.1000">>)})),
        Opt("stop_loss", OnFillValues)),
        Opt("take_profit", OnFillValues))

Counts == {-1, 0, 100, MaxCandles - 1, MaxCandles, MaxCandles + 1, 999999}

HistoricalQueries ==
    Product(Opt("granularity", {<<"D">>, <<"H1">>}), Opt("count", Counts))

UnitsAlphabet == {"-", "+", "0", "5", "_", " ", "x"}

UnitsStrings == {ALL} \cup UNION {[1..n -> UnitsAlphabet] : n \in 0..MaxUnitsLen}

CloseQueries == Opt("units", UnitsStrings)

\* the inputs of the specification of one request
Inputs == [bodies |-> OrderBodies, historical |-> HistoricalQueries,
           close |-> CloseQueries, clock |-> {"t1", "t2"}]

\* fewer inputs for the specification of several requests
FewInputs ==
    [bodies |-> {EmptyDict,
                 [instrument |-> PyStr(EUR_USD), units |-> PyInt(100),
                  price |-> PyStr(<<"1.1000">>), stop_loss |-> PyStr(<<"1.0500">>)]},
     historical |-> {EmptyDict},
     close |-> {EmptyDict, [units |-> <<"x">>]},
     clock |-> {"t1"}]

----------------------------------------------------------------------------
(* The state machine *)

\* the request has arrived and its handler has not started
Free(s) == req[s].pc = "idle"

root(s, D) ==
    /\ Free(s)
    /\ \E now \in D.clock :
         LET body == [message |-> "Oanda MCP Server is running!",
                      environment |-> OANDA_ENVIRONMENT, status |-> "healthy",
                      timestamp |-> now]
         IN  req' = [req EXCEPT ![s] =
                       Finished("root", [NoArgs EXCEPT !.now = now], <<>>, NoReply,
                                Return(body), Return(body))]
    /\ UNCHANGED config

health_check(s) ==
    /\ Free(s)
    /\ req' = [req EXCEPT ![s] =
                 Started("health", NoArgs, Call(AccountDetails(OANDA_ACCOUNT_ID)))]
    /\ UNCHANGED config

get_account_info(s) ==
    /\ Free(s)
    /\ req' = [req EXCEPT ![s] =
                 Started("account", NoArgs, Call(AccountDetails(OANDA_ACCOUNT_ID)))]
    /\ UNCHANGED config

get_positions(s) ==
    /\ Free(s)
    /\ req' = [req EXCEPT ![s] =
                 Started("positions", NoArgs, Call(OpenPositions(OANDA_ACCOUNT_ID)))]
    /\ UNCHANGED config

get_orders(s) ==
    /\ Free(s)
    /\ req' = [req EXCEPT ![s] =
                 Started("orders", NoArgs, Call(OrderList(OANDA_ACCOUNT_ID)))]
    /\ UNCHANGED config

get_current_price(s) ==
    /\ Free(s)
    /\ \E instrument \in {EUR_USD} :
         req' = [req EXCEPT ![s] =
                   Started("price", [NoArgs EXCEPT !.instrument = instrument],
                           get_current_price_call(instrument))]
    /\ UNCHANGED config

get_historical_data(s, D) ==
    /\ Free(s)
    /\ \E instrument \in {EUR_USD}, query \in D.historical :
         req' = [req EXCEPT ![s] =
                   Started("historical",
                           [NoArgs EXCEPT !.instrument = instrument, !.query = query],
                           get_historical_data_call(instrument, query))]
    /\ UNCHANGED config

place_market_order(s, D) ==
    /\ Free(s)
    /\ \E order_request \in D.bodies :
         req' = [req EXCEPT ![s] =
                   Started("order/market", [NoArgs EXCEPT !.order_request = order_request],
                           place_market_order_call(order_request))]
    /\ UNCHANGED config

place_limit_order(s, D) ==
    /\ Free(s)
    /\ \E order_request \in D.bodies :
         req' = [req EXCEPT ![s] =
                   Started("order/limit", [NoArgs EXCEPT !.order_request = order_request],
                           place_limit_order_call(order_request))]
    /\ UNCHANGED config

cancel_order(s) ==
    /\ Free(s)
    /\ \E order_id \in {<<"11">>} :
         req' = [req EXCEPT ![s] =
                   Started("order/cancel", [NoArgs EXCEPT !.order_id = order_id],
                           Call(OrderCancel(OANDA_ACCOUNT_ID, order_id)))]
    /\ UNCHANGED config

\* a close handler that also switches the process to the live environment
close_position_sets_environment(s, D) ==
    /\ Free(s)
    /\ \E instrument \in {EUR_USD}, query \in D.close :
         req' = [req EXCEPT ![s] =
                   Started("position/close",
                           [NoArgs EXCEPT !.instrument = instrument, !.query = query],
                           close_position_call(instrument, query))]
    /\ OANDA_ENVIRONMENT' = "live"
    /\ UNCHANGED <<OANDA_API_KEY, OANDA_ACCOUNT_ID, oanda_client>>

close_position(s, D) ==
    /\ Free(s)
    /\ \E instrument \in {EUR_USD}, query \in D.close :
         req' = [req EXCEPT ![s] =
                   Started("position/close",
                           [NoArgs EXCEPT !.instrument = instrument, !.query = query],
                           close_position_call(instrument, query))]
    /\ UNCHANGED config

\* the broker call of a waiting request returns or raises, and the handler
\* runs to its response
oanda_client_request(s) ==
    /\ req[s].pc = "awaiting"
    /\ \E reply \in Replies(req[s].route) :
         req' = [req EXCEPT ![s] = handler_completes(req[s], reply)]
    /\ UNCHANGED config

\* startup: the credentials are read, the process refuses to start without
\* them, and the client is built from them
Startup(requests) ==
    /\ OANDA_API_KEY \in {"key-1"}
    /\ OANDA_ACCOUNT_ID \in {"101-001"}
    /\ OANDA_ENVIRONMENT \in {"practice", "live"}
    /\ OANDA_API_KEY # "" /\ OANDA_ACCOUNT_ID # ""
    /\ oanda_client = [access_token |-> OANDA_API_KEY, environment |-> OANDA_ENVIRONMENT]
    /\ req = [s \in requests |-> Idle]

\* one request
Init == Startup({1})

Next ==
    \E s \in {1} :
        \/ root(s, Inputs)
        \/ health_check(s)
        \/ get_account_info(s)
        \/ get_positions(s)
        \/ get_orders(s)
        \/ get_current_price(s)
        \/ get_historical_data(s, Inputs)
        \/ place_market_order(s, Inputs)
        \/ place_limit_order(s, Inputs)
        \/ cancel_order(s)
        \/ close_position(s, Inputs)
        \/ oanda_client_request(s)

Spec == Init /\ [][Next]_vars

\* NumRequests requests, in flight together or one after another
InitConc == Startup(1..NumRequests)

NextConc ==
    \E s \in 1..NumRequests :
        \/ root(s, FewInputs)
        \/ health_check(s)
        \/ get_account_info(s)
        \/ get_positions(s)
        \/ get_orders(s)
        \/ get_current_price(s)
        \/ get_historical_data(s, FewInputs)
        \/ place_market_order(s, FewInputs)
        \/ place_limit_order(s, FewInputs)
        \/ cancel_order(s)
        \/ close_position(s, FewInputs)
        \/ oanda_client_request(s)

SpecConc == InitConc /\ [][NextConc]_vars

----------------------------------------------------------------------------
(* Properties *)

Requests == DOMAIN req

Done(s) == req[s].pc = "done"

OrderRoutes == {"order/market", "order/limit"}

\* the routes that map broker failures to HTTP errors
MappedRoutes == {"account", "positions", "orders", "price", "historical",
                 "order/market", "order/limit", "order/cancel", "position/close"}

RequiredFields(route) == IF route = "order/limit" THEN {"instrument", "units", "price"}
                         ELSE {"instrument", "units"}

LacksRequiredField(rq) ==
    /\ rq.route \in OrderRoutes
    /\ ~(RequiredFields(rq.route) \subseteq DOMAIN rq.args.order_request)

UnitsOf(rq) == DictGet(rq.args.query, "units", ALL)

MalformedUnits(rq) ==
    /\ rq.route = "position/close"
    /\ UnitsOf(rq) # ALL
    /\ ~ParseInt(UnitsOf(rq)).ok

\* text `part` occurs inside text `whole`
Embeds(whole, part) ==
    \E i \in 1..(Len(whole) + 1) :
        /\ i + Len(part) - 1 <= Len(whole)
        /\ SubSeq(whole, i, i + Len(part) - 1) = part

\* C1: an order request that lacks a required field (instrument or units; for a
\* limit order also price) is answered with status 400, and the broker client is
\* not called for it.
C1_MissingFieldIs400 ==
    \A s \in Requests :
        Done(s) /\ LacksRequiredField(req[s])
            => req[s].status = 400 /\ req[s].sent = <<>>

\* C2: on the nine routes that map errors, a broker call that raises V20Error is
\* answered 400 with the broker's text inside the detail, any other exception
\* raised while the request is handled is answered 500, and a failed broker call
\* is answered with no status but these two.
C2_BrokerErrorMapping ==
    \A s \in Requests :
        Done(s) /\ req[s].route \in MappedRoutes =>
            /\ req[s].reply.kind = "raise" /\ req[s].reply.exc.cls = "V20Error"
                 => /\ req[s].status = 400
                    /\ "detail" \in DOMAIN req[s].body
                    /\ Embeds(req[s].body["detail"], req[s].reply.exc.detail)
            /\ req[s].reply.kind = "raise" /\ req[s].reply.exc.cls # "V20Error"
                 => req[s].status = 500
            /\ req[s].raised.cls \notin {"None", "V20Error"} => req[s].status = 500
            /\ req[s].reply.kind = "raise" => req[s].status \in {400, 500}

C2_Witness ==
    \E s \in Requests :
        /\ Done(s) /\ req[s].route = "order/cancel"
        /\ req[s].reply.kind = "raise" /\ req[s].reply.exc.cls = "V20Error"
        /\ req[s].status = 400

\* C3: GET /health is always answered 200; the body says "healthy" when the
\* probe returned and "unhealthy", with the error's text, when the probe raised.
C3_HealthAlways200 ==
    \A s \in Requests :
        Done(s) /\ req[s].route = "health" =>
            /\ req[s].status = 200
            /\ req[s].reply.kind = "return" => req[s].body["status"] = "healthy"
            /\ req[s].reply.kind = "raise"
                 => /\ req[s].body["status"] = "unhealthy"
                    /\ req[s].body["error"] = req[s].reply.exc.detail

C3_Witness ==
    \E s \in Requests :
        /\ Done(s) /\ req[s].route = "health"
        /\ req[s].reply.kind = "raise" /\ req[s].reply.exc.cls = "ConnectionError"
        /\ req[s].status = 200 /\ req[s].body["status"] = "unhealthy"

\* C4: GET /price/{instrument} is answered 404 whenever the broker call returned
\* a response whose `prices` list is missing or empty.
C4_NoPriceRowsIs404 ==
    \A s \in Requests :
        /\ Done(s) /\ req[s].route = "price"
        /\ req[s].reply.kind = "return"
        /\ DictGet(req[s].reply.response, "prices", <<>>) = <<>>
        => req[s].status = 404

\* C5: the payload of POST /position/close is {longUnits: "ALL", shortUnits:
\* "ALL"} for units "ALL", {longUnits: units} with the text as supplied for units
\* that parse to a positive integer, and {shortUnits: decimal text of abs(n)} for
\* units that parse to a negative integer n.
C5_ClosePayload ==
    \A s \in Requests :
        req[s].route = "position/close" /\ req[s].sent # <<>> =>
            LET units == UnitsOf(req[s])
                n     == ParseInt(units)
                data  == req[s].sent[1].data
            IN  /\ units = ALL => data = [longUnits |-> ALL, shortUnits |-> ALL]
                /\ n.ok /\ n.val > 0 => data = [longUnits |-> units]
                /\ n.ok /\ n.val < 0 => data = [shortUnits |-> NatToStr(0 - n.val)]

C5_Witness ==
    \E s \in Requests :
        /\ req[s].route = "position/close"
        /\ UnitsOf(req[s]) = <<"-", "5", "0">>
        /\ req[s].sent = <<PositionClose(OANDA_ACCOUNT_ID, EUR_USD,
                                         [shortUnits |-> <<"5", "0">>])>>

\* C6: POST /position/close with units that are neither "ALL" nor an integer is
\* answered with status 400, and the broker client is not called for it.
C6_MalformedUnitsIs400 ==
    \A s \in Requests :
        Done(s) /\ MalformedUnits(req[s])
            => req[s].status = 400 /\ req[s].sent = <<>>

OnFill == {<<"stop_loss", "stopLossOnFill">>, <<"take_profit", "takeProfitOnFill">>}

ValidOrder(rq) ==
    /\ rq.route \in OrderRoutes
    /\ rq.pc # "idle"
    /\ RequiredFields(rq.route) \subseteq DOMAIN rq.args.order_request

\* C7 as claimed: for an order that passes validation, the broker payload has
\* stopLossOnFill (takeProfitOnFill) exactly when stop_loss (take_profit) is in
\* the request body, and then as {price: text of the value}.
C7_OnFillIffPresent ==
    \A s \in Requests :
        ValidOrder(req[s]) =>
            /\ req[s].sent # <<>>
            /\ \A f \in OnFill :
                 LET body  == req[s].args.order_request
                     order == req[s].sent[1].data["order"]
                 IN  /\ f[2] \in DOMAIN order <=> f[1] \in DOMAIN body
                     /\ f[1] \in DOMAIN body => order[f[2]] = [price |-> Str(body[f[1]])]

\* a body value Python takes for true: not null, not zero, not the empty text
NotFalsy(v) == v # PyNone /\ v # PyInt(0) /\ v # PyStr(<<>>)

\* C7 as amended: for an order that passes validation, the broker payload has
\* stopLossOnFill (takeProfitOnFill) exactly when stop_loss (take_profit) is in
\* the request body with a value that is not null, zero or empty, and then as
\* {price: text of the value}; otherwise the key is left out.
C7_OnFillIffTruthy ==
    \A s \in Requests :
        ValidOrder(req[s]) =>
            /\ req[s].sent # <<>>
            /\ \A f \in OnFill :
                 LET body  == req[s].args.order_request
                     order == req[s].sent[1].data["order"]
                     given == f[1] \in DOMAIN body /\ NotFalsy(body[f[1]])
                 IN  /\ f[2] \in DOMAIN order <=> given
                     /\ given => order[f[2]] = [price |-> Str(body[f[1]])]

C7_Witness ==
    \E s \in Requests :
        /\ ValidOrder(req[s])
        /\ DictGet(req[s].args.order_request, "stop_loss", PyNone) = PyInt(2)
        /\ "take_profit" \notin DOMAIN req[s].args.order_request
        /\ req[s].sent # <<>>
        /\ req[s].sent[1].data["order"]["stopLossOnFill"] = [price |-> <<"2">>]
        /\ "takeProfitOnFill" \notin DOMAIN req[s].sent[1].data["order"]

\* C8: GET /historical/{instrument} passes min(count, 5000) to the broker, count
\* being 100 when omitted: never more than 5000, and a count of at most 5000
\* unchanged; the granularity is passed unchanged, "D" when omitted.
C8_CountClamped ==
    \A s \in Requests :
        req[s].route = "historical" /\ req[s].pc # "idle" =>
            LET query  == req[s].args.query
                count  == IF "count" \in DOMAIN query THEN query["count"] ELSE 100
                gran   == IF "granularity" \in DOMAIN query THEN query["granularity"]
                          ELSE <<"D">>
                params == req[s].sent[1].data
            IN  /\ Len(req[s].sent) = 1
                /\ params["count"] <= 5000
                /\ count <= 5000 => params["count"] = count
                /\ count > 5000 => params["count"] = 5000
                /\ params["granularity"] = gran

C8_Witness ==
    \E s \in Requests :
        /\ req[s].route = "historical"
        /\ DictGet(req[s].args.query, "count", 100) = 999999
        /\ req[s].sent # <<>>
        /\ req[s].sent[1].data["count"] = 5000

\* the request passes its handler's input validation
PassesValidation(rq) == ~LacksRequiredField(rq) /\ ~MalformedUnits(rq)

\* C9: a request to a route other than GET / that passes input validation makes
\* exactly one broker call, no request makes more than one, and a request whose
\* broker call failed is answered without a second call.
C9_FireOnce ==
    \A s \in Requests :
        /\ Len(req[s].sent) <= 1
        /\ req[s].pc = "awaiting" => Len(req[s].sent) = 1
        /\ Done(s) /\ req[s].route # "root"
             => Len(req[s].sent) = IF PassesValidation(req[s]) THEN 1 ELSE 0
        /\ Done(s) /\ req[s].reply.kind = "raise" => Len(req[s].sent) = 1

C9_Witness ==
    \E s \in Requests :
        /\ Done(s) /\ req[s].route = "order/market"
        /\ req[s].reply.kind = "raise"
        /\ Len(req[s].sent) = 1

\* two answered requests with the same inputs and the same broker reply were
\* answered alike and made the same broker calls
SameInSameOut ==
    \A s, t \in Requests :
        /\ Done(s) /\ Done(t)
        /\ req[s].route = req[t].route
        /\ req[s].args = req[t].args
        /\ req[s].reply = req[t].reply
        => /\ req[s].status = req[t].status
           /\ req[s].body = req[t].body
           /\ req[s].sent = req[t].sent

\* C10: no step of any request, under any interleaving, changes the API key,
\* the account id, the environment or the client handle, or touches another
\* request; and the answer to a request is determined by its own inputs and the
\* broker's reply to its own call.
C10_Stateless ==
    [][ /\ config' = config
        /\ \A s \in Requests :
             req'[s] # req[s] => \A t \in Requests \ {s} : req'[t] = req[t]
        /\ SameInSameOut' ]_vars

C10_Witness ==
    \E s, t \in Requests :
        /\ s # t /\ Done(s) /\ Done(t)
        /\ req[s].route = "position/close" /\ req[t].route = "position/close"
        /\ req[s].args = req[t].args
        /\ req[s].reply = req[t].reply /\ req[s].reply.kind = "return"
        /\ req[s].status = 200 /\ req[t].status = 200

====
